---- MODULE Spec2Model ----
(***************************************************************************)
(* Model of ptt/cleanup_topologies.py:                                     *)
(*   remove_features_not_referenced_by_topologies, the                     *)
(*   _TopologicalReferenceVisitor it drives and _TopologicalReference.     *)
(*                                                                         *)
(* A feature is a record [feature_id, properties, valid_time].  Feature    *)
(* identifiers identify features: the inputs hold at most one feature per  *)
(* identifier (pygplates feature ids are unique), while references may     *)
(* name identifiers that no input feature carries.                         *)
(*                                                                         *)
(* Python lists are objects: the visitor's self.references and the list    *)
(* held by each _TopologicalReference are addresses into `heap`, so that   *)
(* sharing a list between two features is expressible.                     *)
(***************************************************************************)
EXTENDS Integers, Sequences, FiniteSets

(***************************************************************************)
(* Bounds of the model.                                                    *)
(***************************************************************************)
MaxFeatures == 4
MaxTime == 2
MaxProps == 2

(***************************************************************************)
(* pygplates values.                                                       *)
(***************************************************************************)
None == "None"
GpmlTopologicalLine == "GpmlTopologicalLine"
GpmlTopologicalPolygon == "GpmlTopologicalPolygon"
GpmlTopologicalNetwork == "GpmlTopologicalNetwork"
TopologicalTypes == {GpmlTopologicalLine, GpmlTopologicalPolygon, GpmlTopologicalNetwork}

\* float('inf') and float('-inf'): beyond every finite time of the model.
PosInf == MaxTime + 1
NegInf == 0 - PosInf
ALL_TIME == <<PosInf, NegInf>>

Feature(id, props, vt) == [feature_id |-> id, properties |-> props, valid_time |-> vt]

\* Property values (the variants the visitor dispatches on).
OtherValue == [tag |-> "Other"]
GpmlConstantValue(v) == [tag |-> "GpmlConstantValue", value |-> v]
GpmlTimeWindow(v, b, e) == [value |-> v, begin_time |-> b, end_time |-> e]
GpmlPiecewiseAggregation(vt, ws) == [tag |-> "GpmlPiecewiseAggregation", value_type |-> vt, windows |-> ws]
TopologicalLine(s) == [tag |-> GpmlTopologicalLine, sections |-> s]
TopologicalPolygon(s) == [tag |-> GpmlTopologicalPolygon, exterior_sections |-> s]
TopologicalNetwork(s, i) == [tag |-> GpmlTopologicalNetwork, boundary_sections |-> s, interiors |-> i]

\* The set built by adding each element of an ordered sequence of delegates.
IdsOf(s) == {s[k] : k \in DOMAIN s}

(***************************************************************************)
(* _TopologicalReferenceVisitor.  A visitor state is                       *)
(*   [topology_type, references, current_time_period, heap]                *)
(* where references is the address of the list self.references.            *)
(***************************************************************************)
\* self.references.append((self.current_time_period, set_referenced_feature_ids))
AppendReference(st, type, ids) ==
    [st EXCEPT !.topology_type = type,
               !.heap[st.references] = Append(@, <<st.current_time_period, ids>>)]

visit_gpml_topological_line(st, v) ==
    AppendReference(st, GpmlTopologicalLine, IdsOf(v.sections))

visit_gpml_topological_polygon(st, v) ==
    AppendReference(st, GpmlTopologicalPolygon, IdsOf(v.exterior_sections))

visit_gpml_topological_network(st, v) ==
    AppendReference(st, GpmlTopologicalNetwork, IdsOf(v.boundary_sections) \cup IdsOf(v.interiors))

RECURSIVE accept_visitor(_, _)

\* gpml_constant_value.get_value().accept_visitor(self)
visit_gpml_constant_value(st, v) == accept_visitor(st, v.value)

\* The period in force while the sole time window of an aggregate is visited.
SoleWindowPeriod_declared(st, w) == <<w.begin_time, w.end_time>>
SoleWindowPeriod(st, w) == st.current_time_period

\* The period the visitor is left with once a time window has been visited.
PeriodAfterWindow(st) == ALL_TIME

\* "for gpml_time_window in gpml_piecewise_aggregation"
RECURSIVE VisitWindows(_, _, _)
VisitWindows(st, ws, k) ==
    IF k > Len(ws) THEN st
    ELSE LET restricted == [st EXCEPT !.current_time_period = <<ws[k].begin_time, ws[k].end_time>>]
             visited == accept_visitor(restricted, ws[k].value)
         IN VisitWindows([visited EXCEPT !.current_time_period = PeriodAfterWindow(visited)], ws, k + 1)

visit_gpml_piecewise_aggregation(st, v) ==
    IF v.value_type \in TopologicalTypes
    THEN IF Len(v.windows) = 1
         THEN accept_visitor([st EXCEPT !.current_time_period = SoleWindowPeriod(st, v.windows[1])],
                             v.windows[1].value)
         ELSE VisitWindows(st, v.windows, 1)
    ELSE st

\* property_value.accept_visitor(self): dispatch on the type of the value;
\* a type the visitor does not override is ignored.
accept_visitor(st, v) ==
    CASE v.tag = "GpmlConstantValue" -> visit_gpml_constant_value(st, v)
      [] v.tag = "GpmlPiecewiseAggregation" -> visit_gpml_piecewise_aggregation(st, v)
      [] v.tag = GpmlTopologicalLine -> visit_gpml_topological_line(st, v)
      [] v.tag = GpmlTopologicalPolygon -> visit_gpml_topological_polygon(st, v)
      [] v.tag = GpmlTopologicalNetwork -> visit_gpml_topological_network(st, v)
      [] OTHER -> st

\* "if self.topology_type: break"
StopsScan_never(st) == FALSE
StopsScan(st) == st.topology_type # None

RECURSIVE ScanProperties(_, _, _)
ScanProperties(st, props, k) ==
    IF k > Len(props) THEN st
    ELSE LET visited == accept_visitor(st, props[k])
         IN IF StopsScan(visited) THEN visited ELSE ScanProperties(visited, props, k + 1)

\* "self.references = []": a new list object.
NewReferences_reused(visitor, h) ==
    IF visitor.references = 0
    THEN [references |-> Len(h) + 1, heap |-> Append(h, <<>>)]
    ELSE [references |-> visitor.references, heap |-> h]
NewReferences(visitor, h) == [references |-> Len(h) + 1, heap |-> Append(h, <<>>)]

\* _TopologicalReference(feature, references)
TopologicalReference(feature, references) == [feature |-> feature, references |-> references]

\* visit_feature: the visitor state it leaves, the heap, and the returned pair.
visit_feature(visitor, h, feature) ==
    LET fresh == NewReferences(visitor, h)
        st0 == [topology_type |-> None,
                references |-> fresh.references,
                current_time_period |-> ALL_TIME,
                heap |-> fresh.heap]
        st == ScanProperties(st0, feature.properties, 1)
    IN [visitor |-> [topology_type |-> st.topology_type,
                     references |-> st.references,
                     current_time_period |-> st.current_time_period],
        heap |-> st.heap,
        topology_type |-> st.topology_type,
        topological_reference |-> TopologicalReference(feature, st.references)]

\* _TopologicalReferenceVisitor(): no attribute is set before the first visit.
NewVisitor == [topology_type |-> "Unset", references |-> 0, current_time_period |-> <<>>]

(***************************************************************************)
(* _TopologicalReference                                                   *)
(***************************************************************************)
\* get_references(): the list the reference holds.
get_references(h, reference) == h[reference.references]

\* get_referenced_feature_ids(): the ids of every (time_period, ids) entry.
get_referenced_feature_ids_first_entry(h, reference) ==
    LET refs == get_references(h, reference)
    IN IF refs = <<>> THEN {} ELSE refs[1][2]
get_referenced_feature_ids(h, reference) ==
    LET refs == get_references(h, reference)
    IN UNION {refs[k][2] : k \in DOMAIN refs}

(***************************************************************************)
(* remove_features_not_referenced_by_topologies                            *)
(***************************************************************************)
VARIABLES
    input_feature_collections,  \* the argument feature_collections
    restrict_referenced_feature_time_periods,
    feature_collections,        \* the lists of features built from the argument
    set_feature_ids_of_topological_polygons_and_networks,
    set_feature_ids_referenced_by_topological_polygons_and_networks,
    set_feature_ids_referenced_by_topological_lines_referenced_by_topological_polygons_and_networks,
    topological_polygon_and_network_references,
    topological_line_references, \* dict: feature id -> _TopologicalReference
    topological_reference_visitor,
    heap,                       \* the list objects made by visit_feature
    feature_ids_to_keep,
    pc,                         \* "extract", "resolve", "filter", "done"
    collection_index,           \* position of the loop over feature_collections (0-based)
    feature_index,              \* position inside the current collection (0-based)
    reference_index,            \* position of the loop over the polygon/network references
    result,                     \* the returned list of feature collections
    visit_returns,              \* history: what each visit_feature call returned
    examined,                   \* history: ids the deletion loop looked at, per collection
    run,                        \* 1 for the call on the input, 2 for the call on its result
    first_result                \* the result of the first call

vars == <<input_feature_collections, restrict_referenced_feature_time_periods,
          feature_collections,
          set_feature_ids_of_topological_polygons_and_networks,
          set_feature_ids_referenced_by_topological_polygons_and_networks,
          set_feature_ids_referenced_by_topological_lines_referenced_by_topological_polygons_and_networks,
          topological_polygon_and_network_references, topological_line_references,
          topological_reference_visitor, heap, feature_ids_to_keep, pc,
          collection_index, feature_index, reference_index, result,
          visit_returns, examined, run, first_result>>

\* The state in which the function starts on `collections` (lines 70-87).
Call(collections, flag) ==
    /\ input_feature_collections = collections
    /\ restrict_referenced_feature_time_periods = flag
    /\ feature_collections = collections
    /\ set_feature_ids_of_topological_polygons_and_networks = {}
    /\ set_feature_ids_referenced_by_topological_polygons_and_networks = {}
    /\ set_feature_ids_referenced_by_topological_lines_referenced_by_topological_polygons_and_networks = {}
    /\ topological_polygon_and_network_references = <<>>
    /\ topological_line_references = <<>>
    /\ topological_reference_visitor = NewVisitor
    /\ heap = <<>>
    /\ feature_ids_to_keep = {}
    /\ pc = "extract"
    /\ collection_index = 0
    /\ feature_index = 0
    /\ reference_index = 0
    /\ result = <<>>
    /\ visit_returns = <<>>
    /\ examined = [c \in DOMAIN collections |-> <<>>]

\* dict[key] = value
DictSet(dict, key, value) ==
    [k \in DOMAIN dict \cup {key} |-> IF k = key THEN value ELSE dict[k]]

\* "topology_type == GpmlTopologicalPolygon or topology_type == GpmlTopologicalNetwork"
IsPolygonOrNetwork(topology_type) ==
    topology_type = GpmlTopologicalPolygon \/ topology_type = GpmlTopologicalNetwork

\* Lines 89-102: one iteration of the inner loop over the features of a collection.
ExtractFeature ==
    /\ pc = "extract"
    /\ collection_index < Len(feature_collections)
    /\ feature_index < Len(feature_collections[collection_index + 1])
    /\ LET feature == feature_collections[collection_index + 1][feature_index + 1]
           visit == visit_feature(topological_reference_visitor, heap, feature)
       IN /\ topological_reference_visitor' = visit.visitor
          /\ heap' = visit.heap
          /\ visit_returns' = Append(visit_returns,
                 <<feature.feature_id, visit.topology_type, visit.topological_reference.references>>)
          /\ IF visit.topology_type = GpmlTopologicalLine
             THEN /\ topological_line_references' =
                        DictSet(topological_line_references, feature.feature_id, visit.topological_reference)
                  /\ UNCHANGED <<topological_polygon_and_network_references,
                                 set_feature_ids_of_topological_polygons_and_networks>>
             ELSE IF IsPolygonOrNetwork(visit.topology_type)
             THEN /\ topological_polygon_and_network_references' =
                        Append(topological_polygon_and_network_references, visit.topological_reference)
                  /\ set_feature_ids_of_topological_polygons_and_networks' =
                        set_feature_ids_of_topological_polygons_and_networks \cup {feature.feature_id}
                  /\ UNCHANGED topological_line_references
             ELSE UNCHANGED <<topological_line_references, topological_polygon_and_network_references,
                              set_feature_ids_of_topological_polygons_and_networks>>
    /\ feature_index' = feature_index + 1
    /\ UNCHANGED <<input_feature_collections, restrict_referenced_feature_time_periods,
                   feature_collections,
                   set_feature_ids_referenced_by_topological_polygons_and_networks,
                   set_feature_ids_referenced_by_topological_lines_referenced_by_topological_polygons_and_networks,
                   feature_ids_to_keep, pc, collection_index, reference_index, result,
                   examined, run, first_result>>

\* Line 88: the inner loop has run out of features, on to the next collection.
ExtractNextCollection ==
    /\ pc = "extract"
    /\ collection_index < Len(feature_collections)
    /\ feature_index >= Len(feature_collections[collection_index + 1])
    /\ collection_index' = collection_index + 1
    /\ feature_index' = 0
    /\ UNCHANGED <<input_feature_collections, restrict_referenced_feature_time_periods,
                   feature_collections,
                   set_feature_ids_of_topological_polygons_and_networks,
                   set_feature_ids_referenced_by_topological_polygons_and_networks,
                   set_feature_ids_referenced_by_topological_lines_referenced_by_topological_polygons_and_networks,
                   topological_polygon_and_network_references, topological_line_references,
                   topological_reference_visitor, heap, feature_ids_to_keep, pc,
                   reference_index, result, visit_returns, examined, run, first_result>>

\* Line 88 -> 105: every collection has been visited.
BeginResolve ==
    /\ pc = "extract"
    /\ collection_index >= Len(feature_collections)
    /\ pc' = "resolve"
    /\ reference_index' = 0
    /\ UNCHANGED <<input_feature_collections, restrict_referenced_feature_time_periods,
                   feature_collections,
                   set_feature_ids_of_topological_polygons_and_networks,
                   set_feature_ids_referenced_by_topological_polygons_and_networks,
                   set_feature_ids_referenced_by_topological_lines_referenced_by_topological_polygons_and_networks,
                   topological_polygon_and_network_references, topological_line_references,
                   topological_reference_visitor, heap, feature_ids_to_keep,
                   collection_index, feature_index, result, visit_returns, examined,
                   run, first_result>>

\* topological_line_references.get(referenced_feature_id): None when absent.
NoReference == [references |-> 0]
DictGet_absent(dict, key) == NoReference
DictGet(dict, key) == IF key \in DOMAIN dict THEN dict[key] ELSE NoReference

\* "if topological_line_reference:": None is false, an object is true.
Truthy(reference) == reference.references # 0

\* Lines 112-115, for one referenced id: the ids its line (if it is one) references.
IdsReferencedThroughLine(h, dict, referenced_feature_id) ==
    LET topological_line_reference == DictGet(dict, referenced_feature_id)
    IN IF Truthy(topological_line_reference)
       THEN get_referenced_feature_ids(h, topological_line_reference)
       ELSE {}

\* The ids of all (time_period, ids) entries of one polygon/network reference (lines 106-108).
IdsReferencedDirectly_first_entry(h, reference) ==
    LET refs == get_references(h, reference)
    IN IF refs = <<>> THEN {} ELSE refs[1][2]
IdsReferencedDirectly(h, reference) ==
    LET refs == get_references(h, reference)
    IN UNION {refs[k][2] : k \in DOMAIN refs}

\* Lines 105-115: one iteration of the loop over the polygon/network references.
ResolveReference ==
    /\ pc = "resolve"
    /\ reference_index < Len(topological_polygon_and_network_references)
    /\ LET reference == topological_polygon_and_network_references[reference_index + 1]
           direct == IdsReferencedDirectly(heap, reference)
       IN /\ set_feature_ids_referenced_by_topological_polygons_and_networks' =
                set_feature_ids_referenced_by_topological_polygons_and_networks \cup direct
          /\ set_feature_ids_referenced_by_topological_lines_referenced_by_topological_polygons_and_networks' =
                set_feature_ids_referenced_by_topological_lines_referenced_by_topological_polygons_and_networks
                \cup UNION {IdsReferencedThroughLine(heap, topological_line_references, id) : id \in direct}
    /\ reference_index' = reference_index + 1
    /\ UNCHANGED <<input_feature_collections, restrict_referenced_feature_time_periods,
                   feature_collections,
                   set_feature_ids_of_topological_polygons_and_networks,
                   topological_polygon_and_network_references, topological_line_references,
                   topological_reference_visitor, heap, feature_ids_to_keep, pc,
                   collection_index, feature_index, result, visit_returns, examined,
                   run, first_result>>

\* Lines 121-123.
FeatureIdsToKeep_without_topologies(topologies, direct, through_lines) == direct \cup through_lines
FeatureIdsToKeep_without_direct(topologies, direct, through_lines) == topologies \cup through_lines
FeatureIdsToKeep(topologies, direct, through_lines) == topologies \cup direct \cup through_lines

\* Lines 121-124: the keep-set is computed and the filtering loop starts.
ComputeKeepSet ==
    /\ pc = "resolve"
    /\ reference_index >= Len(topological_polygon_and_network_references)
    /\ feature_ids_to_keep' = FeatureIdsToKeep(
            set_feature_ids_of_topological_polygons_and_networks,
            set_feature_ids_referenced_by_topological_polygons_and_networks,
            set_feature_ids_referenced_by_topological_lines_referenced_by_topological_polygons_and_networks)
    /\ pc' = "filter"
    /\ collection_index' = 0
    /\ feature_index' = 0
    /\ UNCHANGED <<input_feature_collections, restrict_referenced_feature_time_periods,
                   feature_collections,
                   set_feature_ids_of_topological_polygons_and_networks,
                   set_feature_ids_referenced_by_topological_polygons_and_networks,
                   set_feature_ids_referenced_by_topological_lines_referenced_by_topological_polygons_and_networks,
                   topological_polygon_and_network_references, topological_line_references,
                   topological_reference_visitor, heap, reference_index, result,
                   visit_returns, examined, run, first_result>>

\* del feature_collection[feature_index]
DeleteAt(list, index) == SubSeq(list, 1, index) \o SubSeq(list, index + 2, Len(list))

\* feature_index after a deletion: "feature_index -= 1" then "feature_index += 1".
IndexAfterDelete_no_step_back(index) == index + 1
IndexAfterDelete(index) == (index - 1) + 1

\* Lines 126-133, the feature is not in the keep-set: it is deleted.
FilterDelete ==
    /\ pc = "filter"
    /\ collection_index < Len(feature_collections)
    /\ feature_index < Len(feature_collections[collection_index + 1])
    /\ LET feature == feature_collections[collection_index + 1][feature_index + 1]
       IN /\ feature.feature_id \notin feature_ids_to_keep
          /\ examined' = [examined EXCEPT ![collection_index + 1] = Append(@, feature.feature_id)]
    /\ feature_collections' = [feature_collections EXCEPT
            ![collection_index + 1] = DeleteAt(@, feature_index)]
    /\ feature_index' = IndexAfterDelete(feature_index)
    /\ UNCHANGED <<input_feature_collections, restrict_referenced_feature_time_periods,
                   set_feature_ids_of_topological_polygons_and_networks,
                   set_feature_ids_referenced_by_topological_polygons_and_networks,
                   set_feature_ids_referenced_by_topological_lines_referenced_by_topological_polygons_and_networks,
                   topological_polygon_and_network_references, topological_line_references,
                   topological_reference_visitor, heap, feature_ids_to_keep, pc,
                   collection_index, reference_index, result, visit_returns,
                   run, first_result>>

\* Lines 126-133, the feature is in the keep-set: it stays.
FilterKeep ==
    /\ pc = "filter"
    /\ collection_index < Len(feature_collections)
    /\ feature_index < Len(feature_collections[collection_index + 1])
    /\ LET feature == feature_collections[collection_index + 1][feature_index + 1]
       IN /\ feature.feature_id \in feature_ids_to_keep
          /\ examined' = [examined EXCEPT ![collection_index + 1] = Append(@, feature.feature_id)]
    /\ feature_index' = feature_index + 1
    /\ UNCHANGED <<input_feature_collections, restrict_referenced_feature_time_periods,
                   feature_collections,
                   set_feature_ids_of_topological_polygons_and_networks,
                   set_feature_ids_referenced_by_topological_polygons_and_networks,
                   set_feature_ids_referenced_by_topological_lines_referenced_by_topological_polygons_and_networks,
                   topological_polygon_and_network_references, topological_line_references,
                   topological_reference_visitor, heap, feature_ids_to_keep, pc,
                   collection_index, reference_index, result, visit_returns,
                   run, first_result>>

\* Line 124: the while loop of a collection has ended, on to the next collection.
FilterNextCollection ==
    /\ pc = "filter"
    /\ collection_index < Len(feature_collections)
    /\ feature_index >= Len(feature_collections[collection_index + 1])
    /\ collection_index' = collection_index + 1
    /\ feature_index' = 0
    /\ UNCHANGED <<input_feature_collections, restrict_referenced_feature_time_periods,
                   feature_collections,
                   set_feature_ids_of_topological_polygons_and_networks,
                   set_feature_ids_referenced_by_topological_polygons_and_networks,
                   set_feature_ids_referenced_by_topological_lines_referenced_by_topological_polygons_and_networks,
                   topological_polygon_and_network_references, topological_line_references,
                   topological_reference_visitor, heap, feature_ids_to_keep, pc,
                   reference_index, result, visit_returns, examined, run, first_result>>

\* Lines 136-137: the lists are returned as feature collections.
Return ==
    /\ pc = "filter"
    /\ collection_index >= Len(feature_collections)
    /\ result' = feature_collections
    /\ pc' = "done"
    /\ UNCHANGED <<input_feature_collections, restrict_referenced_feature_time_periods,
                   feature_collections,
                   set_feature_ids_of_topological_polygons_and_networks,
                   set_feature_ids_referenced_by_topological_polygons_and_networks,
                   set_feature_ids_referenced_by_topological_lines_referenced_by_topological_polygons_and_networks,
                   topological_polygon_and_network_references, topological_line_references,
                   topological_reference_visitor, heap, feature_ids_to_keep,
                   collection_index, feature_index, reference_index, visit_returns,
                   examined, run, first_result>>

\* The function is called again, on the collections it returned.
CallOnResult ==
    /\ pc = "done"
    /\ run = 1
    /\ run' = 2
    /\ first_result' = result
    /\ input_feature_collections' = result
    /\ restrict_referenced_feature_time_periods' = restrict_referenced_feature_time_periods
    /\ feature_collections' = result
    /\ set_feature_ids_of_topological_polygons_and_networks' = {}
    /\ set_feature_ids_referenced_by_topological_polygons_and_networks' = {}
    /\ set_feature_ids_referenced_by_topological_lines_referenced_by_topological_polygons_and_networks' = {}
    /\ topological_polygon_and_network_references' = <<>>
    /\ topological_line_references' = <<>>
    /\ topological_reference_visitor' = NewVisitor
    /\ heap' = <<>>
    /\ feature_ids_to_keep' = {}
    /\ pc' = "extract"
    /\ collection_index' = 0
    /\ feature_index' = 0
    /\ reference_index' = 0
    /\ result' = <<>>
    /\ visit_returns' = <<>>
    /\ examined' = [c \in DOMAIN result |-> <<>>]

(***************************************************************************)
(* Inputs of the reachability check.  The features of an input carry the   *)
(* ids 1..k in order; a topological feature i references its neighbours    *)
(* i-1, i+1 and i+2, which may be features of either collection or ids     *)
(* that no feature carries.                                                *)
(***************************************************************************)
GraphLayouts == {"regular", "line_next", "line_two_windows", "polygon_sole_window", "network"}

GraphProperties(i, layout) ==
    CASE layout = "regular" -> <<OtherValue>>
      [] layout = "line_next" ->
            <<OtherValue, GpmlConstantValue(TopologicalLine(<<i + 1>>))>>
      [] layout = "line_two_windows" ->
            <<GpmlPiecewiseAggregation(GpmlTopologicalLine,
                <<GpmlTimeWindow(TopologicalLine(<<i + 1>>), MaxTime, 1),
                  GpmlTimeWindow(TopologicalLine(<<i - 1>>), 1, 0)>>)>>
      [] layout = "polygon_sole_window" ->
            <<GpmlPiecewiseAggregation(GpmlTopologicalPolygon,
                <<GpmlTimeWindow(TopologicalPolygon(<<i + 1, i + 2>>), MaxTime, 0)>>)>>
      [] layout = "network" ->
            <<GpmlPiecewiseAggregation(GpmlTopologicalNetwork,
                <<GpmlTimeWindow(TopologicalNetwork(<<i - 1>>, <<>>), MaxTime, 1),
                  GpmlTimeWindow(TopologicalNetwork(<<>>, <<i + 1>>), 1, 0)>>)>>

GraphFeatureLists ==
    UNION { { [i \in 1..k |-> Feature(i, GraphProperties(i, layouts[i]), ALL_TIME)] :
                layouts \in [1..k -> GraphLayouts] } : k \in 0..MaxFeatures }

\* The two collections made of the features before and after position `split`.
SplitAt(features, split) ==
    <<SubSeq(features, 1, split), SubSeq(features, split + 1, Len(features))>>

GraphInputs ==
    {<<>>} \cup UNION { {SplitAt(features, split) : split \in 0..Len(features)} :
                        features \in GraphFeatureLists }

Init ==
    /\ \E collections \in GraphInputs : Call(collections, FALSE)
    /\ run = 1
    /\ first_result = <<>>

Next ==
    \/ ExtractFeature
    \/ ExtractNextCollection
    \/ BeginResolve
    \/ ResolveReference
    \/ ComputeKeepSet
    \/ FilterDelete
    \/ FilterKeep
    \/ FilterNextCollection
    \/ Return

Spec == Init /\ [][Next]_vars

(***************************************************************************)
(* The function applied to its own result.                                 *)
(***************************************************************************)
InitTwice ==
    /\ \E features \in GraphFeatureLists : Call(SplitAt(features, Len(features) \div 2), FALSE)
    /\ run = 1
    /\ first_result = <<>>

NextTwice == Next \/ CallOnResult

SpecTwice == InitTwice /\ [][NextTwice]_vars

(***************************************************************************)
(* Inputs of the extractor check: a feature whose properties are drawn     *)
(* from PropertyMenu, visited after another feature has used the visitor.  *)
(***************************************************************************)
Periods == {<<b, e>> : b \in 0..MaxTime, e \in 0..MaxTime} \ {<<b, e>> \in (0..MaxTime) \X (0..MaxTime) : b < e}

TwoWindowNetwork ==
    GpmlPiecewiseAggregation(GpmlTopologicalNetwork,
        <<GpmlTimeWindow(TopologicalNetwork(<<1>>, <<>>), MaxTime, 1),
          GpmlTimeWindow(TopologicalNetwork(<<3>>, <<2>>), 1, 0)>>)

PropertyMenu ==
    { OtherValue,
      GpmlConstantValue(OtherValue),
      GpmlConstantValue(TopologicalLine(<<1>>)),
      TopologicalPolygon(<<1, 3>>),
      GpmlConstantValue(TopologicalNetwork(<<3>>, <<1>>)),
      TwoWindowNetwork,
      GpmlPiecewiseAggregation(GpmlTopologicalPolygon, <<>>),
      GpmlPiecewiseAggregation("Other", <<GpmlTimeWindow(OtherValue, MaxTime, 0)>>) }
    \cup { GpmlPiecewiseAggregation(GpmlTopologicalLine,
               <<GpmlTimeWindow(TopologicalLine(<<3>>), p[1], p[2])>>) : p \in Periods \cup {ALL_TIME} }

PropertyLists == UNION { [1..n -> PropertyMenu] : n \in 0..MaxProps }

EarlierFeatures ==
    { Feature(1, <<OtherValue>>, ALL_TIME),
      Feature(1, <<GpmlConstantValue(TopologicalLine(<<2>>))>>, ALL_TIME),
      Feature(1, <<TwoWindowNetwork>>, ALL_TIME) }

InitVisitor ==
    /\ \E earlier \in EarlierFeatures, properties \in PropertyLists :
          Call(<<<<earlier, Feature(2, properties, ALL_TIME)>>>>, FALSE)
    /\ run = 1
    /\ first_result = <<>>

SpecVisitor == InitVisitor /\ [][Next]_vars

(***************************************************************************)
(* Inputs of the time-period check: a topology that references features 2  *)
(* and 3, whose valid times vary, with the flag off and on.                *)
(***************************************************************************)
RestrictTopologies ==
    { <<TwoWindowNetwork>>,
      <<GpmlConstantValue(TopologicalPolygon(<<2>>))>>,
      <<GpmlPiecewiseAggregation(GpmlTopologicalPolygon,
          <<GpmlTimeWindow(TopologicalPolygon(<<2>>), MaxTime, 1),
            GpmlTimeWindow(TopologicalPolygon(<<2, 3>>), 1, 1)>>)>> }

InitRestrict ==
    /\ \E topology \in RestrictTopologies, vt2 \in Periods \cup {ALL_TIME},
          vt3 \in Periods \cup {ALL_TIME}, flag \in BOOLEAN :
          Call(<<<<Feature(1, topology, ALL_TIME), Feature(2, <<OtherValue>>, vt2)>>,
                 <<Feature(3, <<OtherValue>>, vt3), Feature(4, <<OtherValue>>, ALL_TIME)>>>>, flag)
    /\ run = 1
    /\ first_result = <<>>

SpecRestrict == InitRestrict /\ [][Next]_vars

(***************************************************************************)
(* What a feature is and what it references, read off its properties.      *)
(***************************************************************************)
\* The property holds a topological line, polygon or network.
Yields(p) ==
    \/ p.tag \in TopologicalTypes
    \/ p.tag = "GpmlConstantValue" /\ p.value.tag \in TopologicalTypes
    \/ p.tag = "GpmlPiecewiseAggregation" /\ p.value_type \in TopologicalTypes /\ Len(p.windows) >= 1

\* Position of the first such property of a list, 0 when there is none.
FirstYielding(props) ==
    IF \E k \in DOMAIN props : Yields(props[k])
    THEN CHOOSE k \in DOMAIN props : Yields(props[k]) /\ \A j \in 1..(k - 1) : ~Yields(props[j])
    ELSE 0

PlainIds(v) ==
    CASE v.tag = GpmlTopologicalLine -> IdsOf(v.sections)
      [] v.tag = GpmlTopologicalPolygon -> IdsOf(v.exterior_sections)
      [] v.tag = GpmlTopologicalNetwork -> IdsOf(v.boundary_sections) \cup IdsOf(v.interiors)
      [] OTHER -> {}

PropertyKind(p) ==
    CASE p.tag = "GpmlConstantValue" -> p.value.tag
      [] p.tag = "GpmlPiecewiseAggregation" -> p.value_type
      [] OTHER -> p.tag

\* Ids referenced in any time window of the property.
PropertyIds(p) ==
    CASE p.tag = "GpmlConstantValue" -> PlainIds(p.value)
      [] p.tag = "GpmlPiecewiseAggregation" -> UNION {PlainIds(p.windows[k].value) : k \in DOMAIN p.windows}
      [] OTHER -> PlainIds(p)

KindOf(f) ==
    IF FirstYielding(f.properties) = 0 THEN None
    ELSE PropertyKind(f.properties[FirstYielding(f.properties)])

ReferencedIds(f) ==
    IF FirstYielding(f.properties) = 0 THEN {}
    ELSE PropertyIds(f.properties[FirstYielding(f.properties)])

FeaturesOf(collections) ==
    UNION { {collections[c][k] : k \in DOMAIN collections[c]} : c \in DOMAIN collections }

RECURSIVE Flatten(_)
Flatten(collections) ==
    IF collections = <<>> THEN <<>> ELSE Head(collections) \o Flatten(Tail(collections))

IsPolygonOrNetworkFeature(f) == KindOf(f) \in {GpmlTopologicalPolygon, GpmlTopologicalNetwork}

\* Some polygon or network of the input references the id.
ReferencedDirectly(id) ==
    \E g \in FeaturesOf(input_feature_collections) :
        IsPolygonOrNetworkFeature(g) /\ id \in ReferencedIds(g)

\* Some line of the input, itself referenced by a polygon or network, references the id.
ReferencedThroughLine(id) ==
    \E l \in FeaturesOf(input_feature_collections) :
        /\ KindOf(l) = GpmlTopologicalLine
        /\ id \in ReferencedIds(l)
        /\ ReferencedDirectly(l.feature_id)

InResult(f) == \E c \in DOMAIN result : \E k \in DOMAIN result[c] : result[c][k] = f

\* The input the actions work on holds one feature per id.
InputIdsUnique ==
    \A f, g \in FeaturesOf(input_feature_collections) : f.feature_id = g.feature_id => f = g

(***************************************************************************)
(* C1: every polygon or network feature of the input is in the result, in  *)
(* the collection at the position of the collection it came from, whether  *)
(* or not anything references it.                                          *)
(***************************************************************************)
C1_PolygonsAndNetworksKept ==
    pc = "done" =>
        /\ Len(result) = Len(input_feature_collections)
        /\ \A c \in DOMAIN input_feature_collections :
             \A k \in DOMAIN input_feature_collections[c] :
                IsPolygonOrNetworkFeature(input_feature_collections[c][k]) =>
                    \E j \in DOMAIN result[c] : result[c][j] = input_feature_collections[c][k]

\* A polygon or network that nothing references is in the result while another feature was removed.
C1_Witness ==
    /\ pc = "done"
    /\ \E f \in FeaturesOf(input_feature_collections) :
          /\ IsPolygonOrNetworkFeature(f)
          /\ ~ReferencedDirectly(f.feature_id)
          /\ ~ReferencedThroughLine(f.feature_id)
          /\ InResult(f)
    /\ \E g \in FeaturesOf(input_feature_collections) : ~InResult(g)

(***************************************************************************)
(* C2: a non-topological feature is in the result iff its id is referenced *)
(* directly by a polygon or network, or by a line whose id is referenced   *)
(* directly by a polygon or network (in whichever collections these are).  *)
(***************************************************************************)
C2_RegularKeptIffWithinTwoHops ==
    pc = "done" =>
        \A f \in FeaturesOf(input_feature_collections) :
            KindOf(f) = None =>
                (InResult(f) <=> (ReferencedDirectly(f.feature_id) \/ ReferencedThroughLine(f.feature_id)))

\* A regular feature reached only by polygon/network -> line -> line -> feature is removed,
\* the first line being kept through a polygon or network of another collection.
C2_Witness ==
    /\ pc = "done"
    /\ \E f, l2, l1 \in FeaturesOf(input_feature_collections) :
          /\ KindOf(f) = None /\ ~InResult(f)
          /\ KindOf(l2) = GpmlTopologicalLine /\ f.feature_id \in ReferencedIds(l2)
          /\ KindOf(l1) = GpmlTopologicalLine /\ l2.feature_id \in ReferencedIds(l1)
          /\ ReferencedDirectly(l1.feature_id)
          /\ InResult(l1)
          /\ \E c \in DOMAIN input_feature_collections :
                /\ l1 \in FeaturesOf(<<input_feature_collections[c]>>)
                /\ \A g \in FeaturesOf(<<input_feature_collections[c]>>) : ~IsPolygonOrNetworkFeature(g)

InKeepSet(f) == f.feature_id \in feature_ids_to_keep

C4_ResultIsFilteredInput ==
    pc = "done" =>
        /\ Len(result) = Len(input_feature_collections)
        /\ \A c \in DOMAIN input_feature_collections :
              /\ result[c] = SelectSeq(input_feature_collections[c], InKeepSet)
              /\ examined[c] = [k \in DOMAIN input_feature_collections[c] |->
                                    input_feature_collections[c][k].feature_id]

\* Two neighbouring features were deleted and the feature after them was kept.
C4_Witness ==
    /\ pc = "done"
    /\ \E c \in DOMAIN input_feature_collections :
          \E k \in DOMAIN input_feature_collections[c] :
              /\ k + 2 <= Len(input_feature_collections[c])
              /\ ~InKeepSet(input_feature_collections[c][k])
              /\ ~InKeepSet(input_feature_collections[c][k + 1])
              /\ InKeepSet(input_feature_collections[c][k + 2])
              /\ InResult(input_feature_collections[c][k + 2])

(***************************************************************************)
(* C5: the function applied to its own result returns that result          *)
(* unchanged, collection by collection.                                    *)
(***************************************************************************)
C5_Idempotent == (pc = "done" /\ run = 2) => result = first_result

\* The second call has returned, on a result that holds a line and the features kept through it.
C5_Witness ==
    /\ pc = "done" /\ run = 2
    /\ \E f \in FeaturesOf(result) :
          /\ KindOf(f) = GpmlTopologicalLine
          /\ \E g \in FeaturesOf(result) : g.feature_id \in ReferencedIds(f) /\ KindOf(g) = None
    /\ \E c \in DOMAIN result : examined[c] # <<>>

(***************************************************************************)
(* C6: with restrict_referenced_feature_time_periods set, every retained   *)
(* non-topological feature that some topology references has its valid     *)
(* time restricted to the union of the time periods recorded against it;   *)
(* with the flag clear the features are left untouched.                    *)
(***************************************************************************)
Instants(period) == {t \in NegInf..PosInf : period[2] <= t /\ t <= period[1]}

RecordedReferences ==
    {topological_polygon_and_network_references[k] : k \in DOMAIN topological_polygon_and_network_references}
    \cup {topological_line_references[id] : id \in DOMAIN topological_line_references}

\* The time periods of the recorded (time_period, ids) entries that name the id.
RecordedPeriods(id) ==
    UNION { {heap[r.references][k][1] : k \in {j \in DOMAIN heap[r.references] : id \in heap[r.references][j][2]}}
            : r \in RecordedReferences }

InputFeature(id) == CHOOSE f \in FeaturesOf(input_feature_collections) : f.feature_id = id

C6_TimePeriodsRestricted ==
    pc = "done" =>
        IF restrict_referenced_feature_time_periods
        THEN \A f \in FeaturesOf(result) :
                (KindOf(f) = None /\ RecordedPeriods(f.feature_id) # {}) =>
                    Instants(f.valid_time) =
                        Instants(InputFeature(f.feature_id).valid_time)
                        \cap UNION {Instants(p) : p \in RecordedPeriods(f.feature_id)}
        ELSE \A f \in FeaturesOf(result) : f \in FeaturesOf(input_feature_collections)

(***************************************************************************)
(* C7: when the topological property of a feature is a time-dependent      *)
(* aggregate with exactly one time window, the single reference recorded   *)
(* for the feature carries ALL_TIME, whatever the window declares.         *)
(***************************************************************************)
Visited(k) == Flatten(input_feature_collections)[k]

HasSoleWindow(f) ==
    /\ FirstYielding(f.properties) # 0
    /\ f.properties[FirstYielding(f.properties)].tag = "GpmlPiecewiseAggregation"
    /\ Len(f.properties[FirstYielding(f.properties)].windows) = 1

C7_SoleWindowIsAllTime ==
    \A k \in DOMAIN visit_returns :
        HasSoleWindow(Visited(k)) =>
            /\ Len(heap[visit_returns[k][3]]) = 1
            /\ heap[visit_returns[k][3]][1][1] = ALL_TIME

\* A feature whose sole window declares a finite period has been visited.
C7_Witness ==
    \E k \in DOMAIN visit_returns :
        /\ HasSoleWindow(Visited(k))
        /\ LET w == Visited(k).properties[FirstYielding(Visited(k).properties)].windows[1]
           IN <<w.begin_time, w.end_time>> \in Periods
        /\ visit_returns[k][2] = GpmlTopologicalLine

(***************************************************************************)
(* C8: once a polygon or network references a line in any of its time      *)
(* windows, the ids referenced in every time window of the line are in the *)
(* keep-set.                                                               *)
(***************************************************************************)
C8_AllWindowsOfReferencedLineKept ==
    pc \in {"filter", "done"} =>
        \A l \in FeaturesOf(input_feature_collections) :
            (KindOf(l) = GpmlTopologicalLine /\ ReferencedDirectly(l.feature_id)) =>
                ReferencedIds(l) \subseteq feature_ids_to_keep

\* A line with two time windows is referenced by a network, and a regular feature that only
\* the second window of the line references is in the result.
C8_Witness ==
    /\ pc = "done"
    /\ \E l, n, r \in FeaturesOf(input_feature_collections) :
          /\ KindOf(l) = GpmlTopologicalLine
          /\ l.properties[1].tag = "GpmlPiecewiseAggregation"
          /\ Len(l.properties[1].windows) = 2
          /\ KindOf(n) = GpmlTopologicalNetwork /\ l.feature_id \in ReferencedIds(n)
          /\ KindOf(r) = None
          /\ r.feature_id \in PlainIds(l.properties[1].windows[2].value)
          /\ r.feature_id \notin PlainIds(l.properties[1].windows[1].value)
          /\ ~ReferencedDirectly(r.feature_id)
          /\ InResult(r)

(***************************************************************************)
(* C9: visit_feature returns the kind and the references of the first      *)
(* property that holds a topological line, polygon or network, and of that *)
(* property alone; with no such property it returns None and no reference. *)
(***************************************************************************)
VisitAlone(f, k) == visit_feature(NewVisitor, <<>>, Feature(f.feature_id, <<f.properties[k]>>, f.valid_time))

C9_FirstTopologicalPropertyDecides ==
    \A k \in DOMAIN visit_returns :
        LET f == Visited(k)
            d == FirstYielding(f.properties)
        IN IF d = 0
           THEN visit_returns[k][2] = None /\ heap[visit_returns[k][3]] = <<>>
           ELSE /\ visit_returns[k][2] = PropertyKind(f.properties[d])
                /\ visit_returns[k][2] = VisitAlone(f, d).topology_type
                /\ heap[visit_returns[k][3]] =
                      VisitAlone(f, d).heap[VisitAlone(f, d).topological_reference.references]

\* A feature with two topological properties of different kinds has been visited.
C9_Witness ==
    \E k \in DOMAIN visit_returns :
        LET f == Visited(k)
        IN /\ Len(f.properties) = 2
           /\ Yields(f.properties[1]) /\ Yields(f.properties[2])
           /\ PropertyKind(f.properties[1]) # PropertyKind(f.properties[2])
           /\ PropertyIds(f.properties[1]) # PropertyIds(f.properties[2])

(***************************************************************************)
(* C10: the reused visitor carries nothing from one feature to the next:   *)
(* each visit returns what a new visitor returns for the feature, no two   *)
(* features share a reference list, and current_time_period is ALL_TIME    *)
(* after every visit.                                                      *)
(***************************************************************************)
VisitFresh(f) == visit_feature(NewVisitor, <<>>, f)

C10_VisitorCarriesNoState ==
    /\ \A k \in DOMAIN visit_returns :
          /\ visit_returns[k][2] = VisitFresh(Visited(k)).topology_type
          /\ heap[visit_returns[k][3]] =
                VisitFresh(Visited(k)).heap[VisitFresh(Visited(k)).topological_reference.references]
    /\ \A j, k \in DOMAIN visit_returns : j # k => visit_returns[j][3] # visit_returns[k][3]
    /\ visit_returns # <<>> => topological_reference_visitor.current_time_period = ALL_TIME

\* Two topological features were visited in turn, the first through a two-window aggregate.
C10_Witness ==
    /\ pc = "resolve"
    /\ Len(visit_returns) = 2
    /\ Visited(1).properties = <<TwoWindowNetwork>>
    /\ Len(heap[visit_returns[1][3]]) = 2
    /\ visit_returns[2][2] = GpmlTopologicalLine
    /\ Len(heap[visit_returns[2][3]]) = 1

====
